---- MODULE Spec2Model ----
(***************************************************************************)
(* Model of oidcop/endpoint_context.py: the bootstrap of EndpointContext   *)
(* from a configuration document, the capability resolvers init_service    *)
(* and init_user_info, get_token_handler_args, do_add_on and               *)
(* create_providerinfo.                                                    *)
(*                                                                         *)
(* Representation.                                                         *)
(*   - A Python dict is a function whose domain is the set of its keys     *)
(*     (a record); the empty dict is <<>>.  "k in d" is k \in DOMAIN d.    *)
(*   - A Python str that the code inspects (issuer, keys.uri_path,         *)
(*     jwks_uri) is a sequence of one-character strings.                   *)
(*   - An optional value is a sequence of length <= 1: None is <<>>,       *)
(*     Some(x) is <<x>>.  Object references are heap indices, 0 is None.   *)
(*   - An ordered dict that the code iterates (add_on, sub_func) is the    *)
(*     sequence of its items in insertion order.                           *)
(*   - The heap objs records every instance a constructor returned, with   *)
(*     the keyword arguments the constructor received.                     *)
(*                                                                         *)
(* The steps of __init__ that read configuration keys no modelled          *)
(* configuration carries (seed, sso_ttl, symkey, client_authn,             *)
(* cookie_name, template_*, httpc_params, verify_ssl, scopes_handler) set  *)
(* fields that nothing below reads and cannot raise for such a             *)
(* configuration; they are not part of the state.                          *)
(***************************************************************************)
EXTENDS Integers, Sequences, FiniteSets, TLC

VARIABLES
    conf0,      \* the configuration document as supplied to __init__
    conf,       \* the same document object as it is now (self.conf)
    pc,         \* "start": not constructed, "ready": __init__ returned, "failed": __init__ raised
    op,         \* the operation executed last
    err,        \* the exception the last operation raised, "none" if it returned
    ctx,        \* the fields of the EndpointContext instance
    objs,       \* the heap: every capability instance constructed so far
    invoked,    \* the add-on calls made by the last do_add_on, in call order
    caps,       \* the base mapping handed to the last create_providerinfo
    out         \* what the last create_providerinfo returned (optional)

vars == <<conf0, conf, pc, op, err, ctx, objs, invoked, caps, out>>

----------------------------------------------------------------------------
(* Bounds *)

\* longest issuer / uri_path string drawn for a configuration
MaxLen == 2
\* most add_on entries in a configuration
MaxAddOns == 3
\* heap size beyond which the post-bootstrap do_* methods are not called again
MaxObjs == 5

----------------------------------------------------------------------------
(* Python values *)

None == <<>>
Some(x) == <<x>>
EmptyDict == <<>>

Has(d, k) == k \in DOMAIN d

\* d[k] = v on a dict
Put(d, k, v) == [x \in DOMAIN d \cup {k} |-> IF x = k THEN v ELSE d[x]]

\* d.update(e)
Update(d, e) == [x \in DOMAIN d \cup DOMAIN e |-> IF x \in DOMAIN e THEN e[x] ELSE d[x]]

\* bool(d.get(k)) for a key that holds a dict
HasTruthy(d, k) == Has(d, k) /\ DOMAIN d[k] # {}

Chars == {"a", "/"}
Strings == UNION {[1..n -> Chars] : n \in 0..MaxLen}

endswith(s, c) == Len(s) > 0 /\ s[Len(s)] = c
startswith(s, c) == Len(s) > 0 /\ s[1] = c

add_path(url, path) ==
    IF endswith(url, "/")
    THEN IF startswith(path, "/") THEN url \o Tail(path) ELSE url \o path
    ELSE IF startswith(path, "/") THEN url \o path ELSE url \o <<"/">> \o path

----------------------------------------------------------------------------
(* Capability references and their resolution *)

\* a class or function reference: a str to import, or the callable itself
Ref(isstr, name) == [isstr |-> isstr, name |-> name]

\* oidcop.util.importer: the lookup table from fully-qualified names to callables
Registry ==
    [x \in {"mod.UserInfo", "mod.Service", "mod.ok", "mod.boom"} |->
        CASE x = "mod.UserInfo" -> "UserInfo"
          [] x = "mod.Service" -> "Service"
          [] x = "mod.ok" -> "ok"
          [] x = "mod.boom" -> "boom"]

importer(name) ==
    IF name \in DOMAIN Registry
    THEN [err |-> "none", callable |-> Registry[name]]
    ELSE [err |-> "ResolutionError", callable |-> "none"]

\* an instance as its constructor built it
Instance(cls, kwargs, via) == [cls |-> cls, kwargs |-> kwargs, userinfo |-> 0, via |-> via]

\* conf["class"] resolved and called with **kwargs; c is unchanged here
instantiate(c, kwargs, heap, via) ==
    IF ~Has(c, "class")
    THEN [c |-> c, objs |-> heap, err |-> "KeyError", ref |-> 0]
    ELSE LET cls == IF c["class"].isstr
                    THEN importer(c["class"].name)
                    ELSE [err |-> "none", callable |-> c["class"].name]
         IN  IF cls.err # "none"
             THEN [c |-> c, objs |-> heap, err |-> cls.err, ref |-> 0]
             ELSE [c |-> c,
                   objs |-> Append(heap, Instance(cls.callable, kwargs, via)),
                   err |-> "none",
                   ref |-> Len(heap) + 1]

init_user_info(c, heap) ==
    LET kwargs == IF Has(c, "kwargs") THEN c.kwargs ELSE EmptyDict
    IN  instantiate(c, kwargs, heap, "init_user_info")

\* kwargs is conf's own dict when the key is there: the assignment writes into it
init_service(c, server_get, heap) ==
    LET kwargs == Put(IF Has(c, "kwargs") THEN c.kwargs ELSE EmptyDict,
                      "server_get", server_get)
        c2 == IF Has(c, "kwargs") THEN [c EXCEPT !.kwargs = kwargs] ELSE c
    IN  instantiate(c2, kwargs, heap, "init_service")

----------------------------------------------------------------------------
(* get_token_handler_args *)

KeyDef(kid) == [type |-> "oct", bytes |-> "24", use |-> <<"enc">>, kid |-> kid]

DefaultTokenHandlerArgs ==
    [jwks_def |-> [private_path |-> "private/token_jwks.json",
                   key_defs |-> <<KeyDef("code"), KeyDef("token"), KeyDef("refresh")>>,
                   read_only |-> FALSE],
     code |-> [lifetime |-> 600],
     token |-> [lifetime |-> 3600],
     refresh |-> [lifetime |-> 86400]]

\* mutant: the configured block is merged over the defaults
get_token_handler_args_merge(c) ==
    IF HasTruthy(c, "token_handler_args")
    THEN Update(DefaultTokenHandlerArgs, c.token_handler_args)
    ELSE DefaultTokenHandlerArgs

get_token_handler_args(c) ==
    IF HasTruthy(c, "token_handler_args")
    THEN c.token_handler_args
    ELSE DefaultTokenHandlerArgs

----------------------------------------------------------------------------
(* The methods of EndpointContext, as transformers of                      *)
(* s = [conf, ctx, objs, err]: the configuration object, the instance's    *)
(* fields, the heap, and the exception raised ("none" while running).      *)

\* write the (possibly modified) capability reference back at conf[k], take the heap
Commit(s, k, r) == [s EXCEPT !.conf = Put(s.conf, k, r.c), !.objs = r.objs, !.err = r.err]

do_cookie_dealer(s) ==
    IF HasTruthy(s.conf, "cookie_dealer") /\ s.ctx.cookie_dealer = 0
    THEN LET r == init_service(s.conf.cookie_dealer, "None", s.objs)
             s2 == Commit(s, "cookie_dealer", r)
         IN  IF r.err # "none" THEN s2 ELSE [s2 EXCEPT !.ctx.cookie_dealer = r.ref]
    ELSE s

\* mutant: the session manager is not asked for
do_userinfo_unchecked(s) ==
    IF HasTruthy(s.conf, "userinfo")
    THEN LET r == init_user_info(s.conf.userinfo, s.objs)
         IN  IF r.err # "none"
             THEN [s EXCEPT !.err = r.err]
             ELSE [s EXCEPT !.ctx.userinfo = r.ref, !.objs = r.objs]
    ELSE s

do_userinfo(s) ==
    IF HasTruthy(s.conf, "userinfo")
    THEN IF s.ctx.session_manager # 0
         THEN LET r == init_user_info(s.conf.userinfo, s.objs)
              IN  IF r.err # "none"
                  THEN [s EXCEPT !.err = r.err]
                  ELSE [s EXCEPT !.ctx.userinfo = r.ref,
                                 !.objs = [r.objs EXCEPT ![s.ctx.session_manager].userinfo = r.ref]]
         ELSE s   \* logger.warning
    ELSE s

\* mutant: without a nested block the lookup gets no user-info object at all
do_login_hint_lookup_no_fallback(s) ==
    IF HasTruthy(s.conf, "login_hint_lookup")
    THEN LET _conf == s.conf.login_hint_lookup
             nested == Has(_conf, "kwargs") /\ DOMAIN _conf.kwargs # {}
                         /\ HasTruthy(_conf.kwargs, "userinfo")
             u == IF nested
                  THEN init_user_info(_conf.kwargs.userinfo, s.objs)
                  ELSE [c |-> EmptyDict, objs |-> s.objs, err |-> "none", ref |-> 0]
         IN  IF u.err # "none"
             THEN [s EXCEPT !.err = u.err]
             ELSE LET r == init_service(_conf, "None", u.objs)
                      s2 == Commit(s, "login_hint_lookup", r)
                  IN  IF r.err # "none"
                      THEN s2
                      ELSE [s2 EXCEPT !.ctx.login_hint_lookup = r.ref,
                                      !.objs[r.ref].userinfo = u.ref]
    ELSE s

do_login_hint_lookup(s) ==
    IF HasTruthy(s.conf, "login_hint_lookup")
    THEN LET _conf == s.conf.login_hint_lookup
             nested == Has(_conf, "kwargs") /\ DOMAIN _conf.kwargs # {}
                         /\ HasTruthy(_conf.kwargs, "userinfo")
             u == IF nested
                  THEN init_user_info(_conf.kwargs.userinfo, s.objs)
                  ELSE [c |-> EmptyDict, objs |-> s.objs, err |-> "none", ref |-> 0]
         IN  IF u.err # "none"
             THEN [s EXCEPT !.err = u.err]
             ELSE LET _userinfo == IF u.ref = 0 THEN s.ctx.userinfo ELSE u.ref
                      r == init_service(_conf, "None", u.objs)
                      s2 == Commit(s, "login_hint_lookup", r)
                  IN  IF r.err # "none"
                      THEN s2
                      ELSE [s2 EXCEPT !.ctx.login_hint_lookup = r.ref,
                                      !.objs[r.ref].userinfo = _userinfo]
    ELSE s

do_login_hint2acrs(s) ==
    IF HasTruthy(s.conf, "login_hint2acrs")
    THEN LET r == init_service(s.conf.login_hint2acrs, "None", s.objs)
             s2 == Commit(s, "login_hint2acrs", r)
         IN  IF r.err # "none" THEN s2 ELSE [s2 EXCEPT !.ctx.login_hint2acrs = r.ref]
    ELSE [s EXCEPT !.ctx.login_hint2acrs = 0]

\* one entry of sub_func, item i of the ordered dict
sub_func_item(s, i) ==
    LET key == s.conf.sub_func[i].key
        args == s.conf.sub_func[i].args
    IN  IF Has(args, "class")
        THEN LET r == init_service(args, "None", s.objs)
                 s2 == [s EXCEPT !.conf.sub_func[i].args = r.c, !.objs = r.objs, !.err = r.err]
             IN  IF r.err # "none"
                 THEN s2
                 ELSE [s2 EXCEPT !.ctx._sub_func =
                          Put(@, key, [instance |-> r.ref, function |-> "none"])]
        ELSE IF Has(args, "function")
        THEN LET f == IF args.function.isstr
                      THEN importer(args.function.name)
                      ELSE [err |-> "none", callable |-> args.function.name]
             IN  IF f.err # "none"
                 THEN [s EXCEPT !.err = f.err]
                 ELSE [s EXCEPT !.ctx._sub_func =
                          Put(@, key, [instance |-> 0, function |-> f.callable])]
        ELSE s

RECURSIVE sub_func_from(_, _)
sub_func_from(s, i) ==
    IF s.err # "none" \/ i > Len(s.conf.sub_func)
    THEN s
    ELSE sub_func_from(sub_func_item(s, i), i + 1)

do_sub_func(s) ==
    IF Has(s.conf, "sub_func") THEN sub_func_from(s, 1) ELSE s

\* the four scalar settings copied when present; only issuer is read below
copy_params(s) ==
    IF Has(s.conf, "issuer") THEN [s EXCEPT !.ctx.issuer = s.conf.issuer] ELSE s

set_th_args(s) == [s EXCEPT !.ctx.th_args = get_token_handler_args(s.conf)]

\* conf["keys"]["uri_path"] is read outside the try; nothing inside it raises KeyError
set_jwks_uri(s) ==
    IF ~Has(s.conf, "keys") \/ ~Has(s.conf.keys, "uri_path")
    THEN [s EXCEPT !.err = "KeyError"]
    ELSE LET jwks_uri_path == s.conf.keys.uri_path
         IN  IF endswith(s.ctx.issuer, "/")
             THEN [s EXCEPT !.ctx.jwks_uri = Some(s.ctx.issuer \o jwks_uri_path)]
             ELSE [s EXCEPT !.ctx.jwks_uri = Some(s.ctx.issuer \o <<"/">> \o jwks_uri_path)]

\* external names the module imports
SCOPE2CLAIMS_keys == <<"openid", "profile", "email", "address", "phone", "offline_access">>
STANDARD_CLAIMS == <<"sub", "name", "email">>

\* the fields as the assignments before the configuration is read leave them
DefaultContext(keyjar, cookie_dealer) ==
    [keyjar |-> keyjar,
     authn_broker |-> None,
     cookie_dealer |-> cookie_dealer,
     idtoken |-> None,
     issuer |-> <<>>,
     jwks_uri |-> None,
     login_hint_lookup |-> 0,
     login_hint2acrs |-> 0,
     scope2claims |-> SCOPE2CLAIMS_keys,
     session_manager |-> 0,
     userinfo |-> 0,
     th_args |-> EmptyDict,
     _sub_func |-> EmptyDict]

\* one step of __init__ after the scalar settings; the do_<item> hooks that the
\* class does not define (authentication, id_token, scope2claims) are skipped
init_step(s, item) ==
    CASE item = "sub_func" -> do_sub_func(s)
      [] item = "jwks_uri" -> set_jwks_uri(s)
      [] item = "cookie_dealer" -> do_cookie_dealer(s)
      [] item = "userinfo" -> do_userinfo(s)
      [] item = "login_hint_lookup" -> do_login_hint_lookup(s)
      [] item = "login_hint2acrs" -> do_login_hint2acrs(s)
      [] OTHER -> s

\* the steps in order; an exception leaves __init__ at once
RECURSIVE init_from(_, _, _)
init_from(s, items, i) ==
    IF s.err # "none" \/ i > Len(items)
    THEN s
    ELSE init_from(init_step(s, items[i]), items, i + 1)

InitOrder ==
    <<"sub_func", "jwks_uri",
      "cookie_dealer", "authentication", "id_token", "scope2claims",
      "userinfo", "login_hint_lookup", "login_hint2acrs">>

\* EndpointContext.__init__(conf, keyjar, cwd, cookie_dealer, httpc)
__init__(c, keyjar, cookie_dealer) ==
    LET heap == IF cookie_dealer THEN <<Instance("CookieDealer", EmptyDict, "caller")>> ELSE <<>>
        s0 == [conf |-> c,
               ctx |-> DefaultContext(keyjar, IF cookie_dealer THEN 1 ELSE 0),
               objs |-> heap,
               err |-> "none"]
    IN  init_from(set_th_args(copy_params(s0)), InitOrder, 1)

----------------------------------------------------------------------------
(* do_add_on *)

\* the add-on callables that raise when called
Raising == {"boom"}

\* the loop body for item i of conf["add_on"]; calls is the invocation log
RECURSIVE add_on_from(_, _, _, _)
add_on_from(items, i, endpoints, calls) ==
    IF i > Len(items)
    THEN [err |-> "none", invoked |-> calls]
    ELSE LET spec == items[i].spec
         IN  IF ~Has(spec, "function")
             THEN [err |-> "KeyError", invoked |-> calls]
             ELSE LET _func == IF spec.function.isstr
                               THEN importer(spec.function.name)
                               ELSE [err |-> "none", callable |-> spec.function.name]
                  IN  IF _func.err # "none"
                      THEN [err |-> _func.err, invoked |-> calls]
                      ELSE IF ~Has(spec, "kwargs")
                      THEN [err |-> "KeyError", invoked |-> calls]
                      ELSE LET call == [function |-> _func.callable,
                                        endpoints |-> endpoints,
                                        kwargs |-> spec.kwargs]
                           IN  IF _func.callable \in Raising
                               THEN [err |-> "AddOnError", invoked |-> Append(calls, call)]
                               ELSE add_on_from(items, i + 1, endpoints, Append(calls, call))

\* mutant: a failing add-on is passed over and the later ones still run
RECURSIVE add_on_continue_from(_, _, _, _, _)
add_on_continue_from(items, i, endpoints, calls, e) ==
    IF i > Len(items)
    THEN [err |-> e, invoked |-> calls]
    ELSE LET one == add_on_from(<<items[i]>>, 1, endpoints, <<>>)
         IN  add_on_continue_from(items, i + 1, endpoints, calls \o one.invoked,
                                  IF e = "none" THEN one.err ELSE e)

do_add_on_continue(c, endpoints) ==
    IF Has(c, "add_on") /\ Len(c.add_on) > 0
    THEN add_on_continue_from(c.add_on, 1, endpoints, <<>>, "none")
    ELSE [err |-> "none", invoked |-> <<>>]

do_add_on(c, endpoints) ==
    IF Has(c, "add_on") /\ Len(c.add_on) > 0
    THEN add_on_from(c.add_on, 1, endpoints, <<>>)
    ELSE [err |-> "none", invoked |-> <<>>]

----------------------------------------------------------------------------
(* create_providerinfo *)

\* mutant: issuer and version are set only when the base mapping lacks them
create_providerinfo_keep_base(x, capabilities) ==
    LET p0 == IF Has(capabilities, "issuer") THEN capabilities
              ELSE Put(capabilities, "issuer", x.issuer)
        p1 == IF Has(p0, "version") THEN p0 ELSE Put(p0, "version", "3.0")
    IN  IF x.idtoken = None
        THEN [err |-> "AttributeError", out |-> None]
        ELSE LET p4 == Update(p1, x.idtoken[1])
                 p5 == IF ~Has(p4, "scopes_supported")
                       THEN Put(p4, "scopes_supported", x.scope2claims)
                       ELSE p4
                 p6 == IF ~Has(p5, "claims_supported")
                       THEN Put(p5, "claims_supported", STANDARD_CLAIMS)
                       ELSE p5
             IN  [err |-> "none", out |-> Some(p6)]

\* mutant: the two defaults are written whether or not the key is there
create_providerinfo_always_default(x, capabilities) ==
    LET p1 == Put(Put(capabilities, "issuer", x.issuer), "version", "3.0")
    IN  IF x.idtoken = None
        THEN [err |-> "AttributeError", out |-> None]
        ELSE LET p4 == Update(p1, x.idtoken[1])
                 p5 == Put(p4, "scopes_supported", x.scope2claims)
                 p6 == Put(p5, "claims_supported", STANDARD_CLAIMS)
             IN  [err |-> "none", out |-> Some(p6)]

create_providerinfo(x, capabilities) ==
    LET p1 == Put(Put(capabilities, "issuer", x.issuer), "version", "3.0")
        p2 == IF x.authn_broker # None /\ x.authn_broker[1] # None
              THEN Put(p1, "acr_values_supported", x.authn_broker[1][1])
              ELSE p1
        p3 == IF x.jwks_uri # None /\ Len(x.jwks_uri[1]) > 0 /\ x.keyjar
              THEN Put(p2, "jwks_uri", x.jwks_uri[1])
              ELSE p2
    IN  IF x.idtoken = None
        THEN [err |-> "AttributeError", out |-> None]
        ELSE LET p4 == Update(p3, x.idtoken[1])
                 p5 == IF ~Has(p4, "scopes_supported")
                       THEN Put(p4, "scopes_supported", x.scope2claims)
                       ELSE p4
                 p6 == IF ~Has(p5, "claims_supported")
                       THEN Put(p5, "claims_supported", STANDARD_CLAIMS)
                       ELSE p5
             IN  [err |-> "none", out |-> Some(p6)]

----------------------------------------------------------------------------
(* Configuration documents *)

\* d, and d with key k set to each value of S
WithOpt(D, k, S) == D \cup {Put(d, k, v) : d \in D, v \in S}

UserInfoClass == Ref(FALSE, "UserInfo")
ServiceClass == Ref(FALSE, "Service")

BaseConf == [issuer |-> <<"a">>, keys |-> [uri_path |-> <<"a">>]]

UserinfoConfs ==
    {[class |-> UserInfoClass, kwargs |-> [db |-> "users"]],
     [class |-> Ref(TRUE, "mod.UserInfo")],
     [class |-> Ref(TRUE, "no.such"), kwargs |-> [db |-> "users"]]}

LoginHintLookupConfs ==
    {[class |-> ServiceClass],
     [class |-> ServiceClass, kwargs |-> EmptyDict],
     [class |-> ServiceClass, kwargs |-> [db |-> "hints"]],
     [class |-> ServiceClass,
      kwargs |-> [userinfo |-> [class |-> Ref(TRUE, "mod.UserInfo"), kwargs |-> [db |-> "hints"]]]],
     [class |-> ServiceClass, kwargs |-> [userinfo |-> EmptyDict]],
     [class |-> ServiceClass, kwargs |-> [server_get |-> "configured"]],
     [class |-> Ref(TRUE, "no.such"), kwargs |-> [db |-> "hints"]],
     [class |-> ServiceClass, kwargs |-> [userinfo |-> [class |-> Ref(TRUE, "no.such")]]]}

LoginHint2AcrsConfs ==
    {[class |-> ServiceClass, kwargs |-> [server_get |-> "configured"]],
     [class |-> Ref(TRUE, "mod.Service")]}

CookieDealerConfs ==
    {[class |-> ServiceClass, kwargs |-> [db |-> "cookies"]],
     [class |-> Ref(TRUE, "mod.Service"), kwargs |-> [server_get |-> "configured"]]}

SubFuncConfs ==
    {<<[key |-> "pairwise", args |-> [class |-> ServiceClass, kwargs |-> [salt |-> "s"]]],
       [key |-> "public", args |-> [function |-> Ref(TRUE, "mod.ok")]]>>,
     <<[key |-> "public", args |-> [function |-> Ref(FALSE, "ok")]]>>,
     <<[key |-> "pairwise", args |-> [class |-> Ref(TRUE, "no.such"), kwargs |-> [salt |-> "s"]]]>>}

\* capability wiring: every combination of the capability blocks
WiringConfs ==
    WithOpt({BaseConf}, "sub_func", SubFuncConfs)
    \cup WithOpt(WithOpt(WithOpt(WithOpt({BaseConf},
            "userinfo", UserinfoConfs),
            "login_hint_lookup", LoginHintLookupConfs),
            "login_hint2acrs", LoginHint2AcrsConfs),
            "cookie_dealer", CookieDealerConfs)

TokenHandlerArgsConfs ==
    {EmptyDict,
     [code |-> [lifetime |-> 60]],
     [jwks_def |-> [private_path |-> "private/my_jwks.json",
                    key_defs |-> <<KeyDef("code")>>,
                    read_only |-> TRUE],
      code |-> [lifetime |-> 600],
      token |-> [lifetime |-> 3600],
      refresh |-> [lifetime |-> 86400]]}

\* scalar settings: issuer, keys.uri_path and token_handler_args, each present or not
ScalarConfs ==
    WithOpt(WithOpt({EmptyDict, [keys |-> EmptyDict]} \cup {[keys |-> [uri_path |-> p]] : p \in Strings},
            "issuer", Strings),
            "token_handler_args", TokenHandlerArgsConfs)

AddOnSpecs ==
    {[function |-> Ref(FALSE, "ok"), kwargs |-> [x |-> "1"]],
     [function |-> Ref(TRUE, "mod.ok"), kwargs |-> [x |-> "2"]],
     [function |-> Ref(FALSE, "boom"), kwargs |-> [x |-> "3"]],
     [function |-> Ref(TRUE, "no.such"), kwargs |-> [x |-> "4"]],
     [function |-> Ref(FALSE, "ok")]}

AddOnKeys == [i \in 1..(MaxAddOns + 1) |-> i]

AddOnConfs ==
    UNION {{[i \in 1..n |-> [key |-> AddOnKeys[i], spec |-> f[i]]] : f \in [1..n -> AddOnSpecs]}
           : n \in 0..MaxAddOns}

AddOnDocs == WithOpt({BaseConf}, "add_on", AddOnConfs)

Endpoints == {"endpoints_1", "endpoints_2"}

ProviderInfoDocs == {BaseConf, [keys |-> [uri_path |-> <<"a">>]], [issuer |-> <<"a", "/">>, keys |-> [uri_path |-> <<"a">>]]}

\* base capabilities mappings handed to create_providerinfo
Capabilities ==
    {EmptyDict,
     [response_types_supported |-> <<"code">>],
     [issuer |-> <<"/", "/">>, version |-> "0.1"],
     [scopes_supported |-> <<"openid">>],
     [claims_supported |-> <<"sub">>],
     [scopes_supported |-> <<>>, claims_supported |-> <<>>],
     [issuer |-> <<"/", "/">>, scopes_supported |-> <<"openid", "email">>]}

\* idtoken.provider_info
Fragments ==
    {EmptyDict,
     [id_token_signing_alg_values_supported |-> <<"RS256">>],
     [issuer |-> <<"/">>],
     [version |-> "0.2"],
     [scopes_supported |-> <<"openid", "custom">>],
     [claims_supported |-> <<"nickname">>]}

\* authn_broker.get_acr_values()
AcrValues == {None, Some(<<>>), Some(<<"pwd">>)}

----------------------------------------------------------------------------
(* Actions *)

Cur == [conf |-> conf, ctx |-> ctx, objs |-> objs, err |-> "none"]

\* a do_* method returned or raised
Apply(s, name) ==
    /\ conf' = s.conf
    /\ ctx' = s.ctx
    /\ objs' = s.objs
    /\ err' = s.err
    /\ op' = name
    /\ UNCHANGED <<conf0, pc, invoked, caps, out>>

New ==
    /\ pc = "start"
    /\ \E keyjar \in BOOLEAN, cookie_dealer \in BOOLEAN :
          LET s == __init__(conf, keyjar, cookie_dealer)
          IN  /\ conf' = s.conf
              /\ ctx' = s.ctx
              /\ objs' = s.objs
              /\ err' = s.err
              /\ pc' = IF s.err = "none" THEN "ready" ELSE "failed"
    /\ op' = "__init__"
    /\ UNCHANGED <<conf0, invoked, caps, out>>

Call_do_cookie_dealer ==
    /\ pc = "ready"
    /\ Len(objs) < MaxObjs
    /\ Apply(do_cookie_dealer(Cur), "do_cookie_dealer")

Call_do_userinfo ==
    /\ pc = "ready"
    /\ Len(objs) < MaxObjs
    /\ Apply(do_userinfo(Cur), "do_userinfo")

Call_do_login_hint_lookup ==
    /\ pc = "ready"
    /\ Len(objs) + 1 < MaxObjs
    /\ Apply(do_login_hint_lookup(Cur), "do_login_hint_lookup")

Call_do_login_hint2acrs ==
    /\ pc = "ready"
    /\ Len(objs) < MaxObjs
    /\ Apply(do_login_hint2acrs(Cur), "do_login_hint2acrs")

Call_do_add_on ==
    /\ pc = "ready"
    /\ \E endpoints \in Endpoints :
          LET r == do_add_on(conf, endpoints)
          IN  /\ invoked' = r.invoked
              /\ err' = r.err
    /\ op' = "do_add_on"
    /\ UNCHANGED <<conf0, conf, pc, ctx, objs, caps, out>>

Call_create_providerinfo ==
    /\ pc = "ready"
    /\ \E capabilities \in Capabilities :
          LET r == create_providerinfo(ctx, capabilities)
          IN  /\ caps' = capabilities
              /\ out' = r.out
              /\ err' = r.err
    /\ op' = "create_providerinfo"
    /\ UNCHANGED <<conf0, conf, pc, ctx, objs, invoked>>

\* the server installs the session manager after the context is built
SetSessionManager ==
    /\ pc = "ready"
    /\ ctx.session_manager = 0
    /\ objs' = Append(objs, Instance("SessionManager", EmptyDict, "caller"))
    /\ ctx' = [ctx EXCEPT !.session_manager = Len(objs) + 1]
    /\ op' = "set_session_manager"
    /\ err' = "none"
    /\ UNCHANGED <<conf0, conf, pc, invoked, caps, out>>

\* the server installs the ID-token capability, which exposes provider_info
SetIdToken ==
    /\ pc = "ready"
    /\ \E f \in Fragments : ctx' = [ctx EXCEPT !.idtoken = Some(f)]
    /\ op' = "set_idtoken"
    /\ err' = "none"
    /\ UNCHANGED <<conf0, conf, pc, objs, invoked, caps, out>>

\* the server installs the authentication broker
SetAuthnBroker ==
    /\ pc = "ready"
    /\ \E a \in AcrValues : ctx' = [ctx EXCEPT !.authn_broker = Some(a)]
    /\ op' = "set_authn_broker"
    /\ err' = "none"
    /\ UNCHANGED <<conf0, conf, pc, objs, invoked, caps, out>>

----------------------------------------------------------------------------
(* Specifications *)

InitWith(Docs) ==
    /\ conf0 \in Docs
    /\ conf = conf0
    /\ pc = "start"
    /\ op = "none"
    /\ err = "none"
    /\ ctx = DefaultContext(FALSE, 0)
    /\ objs = <<>>
    /\ invoked = <<>>
    /\ caps = EmptyDict
    /\ out = None

Init == InitWith(WiringConfs)

Next ==
    \/ New
    \/ SetSessionManager
    \/ Call_do_cookie_dealer
    \/ Call_do_userinfo
    \/ Call_do_login_hint_lookup
    \/ Call_do_login_hint2acrs

\* capability wiring: bootstrap, then the server's later calls of the do_* methods
Spec == Init /\ [][Next]_vars

InitScalars == InitWith(ScalarConfs)

NextScalars == New

\* bootstrap over the scalar settings
SpecScalars == InitScalars /\ [][NextScalars]_vars

InitAddOn == InitWith(AddOnDocs)

NextAddOn ==
    \/ New
    \/ Call_do_add_on

\* bootstrap, then the add-ons
SpecAddOn == InitAddOn /\ [][NextAddOn]_vars

InitProviderInfo == InitWith(ProviderInfoDocs)

NextProviderInfo ==
    \/ New
    \/ SetIdToken
    \/ SetAuthnBroker
    \/ Call_create_providerinfo

\* bootstrap, the server's capabilities, then provider-info assembly on demand
SpecProviderInfo == InitProviderInfo /\ [][NextProviderInfo]_vars

----------------------------------------------------------------------------
(* Properties *)

StripTrailingSlash(s) == IF endswith(s, "/") THEN SubSeq(s, 1, Len(s) - 1) ELSE s
StripLeadingSlash(s) == IF startswith(s, "/") THEN Tail(s) ELSE s

\* an issuer and a path whose parts next to the joint are not themselves slashes
JoinCase(issuer, path) ==
    /\ StripTrailingSlash(issuer) # <<>>
    /\ ~endswith(StripTrailingSlash(issuer), "/")
    /\ StripLeadingSlash(path) # <<>>
    /\ ~startswith(StripLeadingSlash(path), "/")

\* C1: after __init__, jwks_uri is the issuer and keys.uri_path joined by exactly
\* one slash, whether or not the issuer ends with a slash and whether or not the
\* path starts with one.
C1_JwksUriOneSlash ==
    (pc = "ready" /\ Has(conf0, "issuer") /\ JoinCase(conf0.issuer, conf0.keys.uri_path))
        => ctx.jwks_uri = Some(StripTrailingSlash(conf0.issuer) \o <<"/">>
                               \o StripLeadingSlash(conf0.keys.uri_path))

\* C10: when the configuration has no issuer, __init__ raises nothing at the
\* JWKS-URI step and leaves jwks_uri unset, whatever keys.uri_path is.
C10_NoIssuerNoJwksUri ==
    (op = "__init__" /\ ~Has(conf0, "issuer")
        /\ Has(conf0, "keys") /\ Has(conf0.keys, "uri_path"))
        => (err = "none" /\ ctx.jwks_uri = None)

\* the default block: three oct/24-byte/enc key descriptors code, token, refresh
\* and the lifetimes 600, 3600, 86400
IsDefaultBlock(th) ==
    /\ DOMAIN th = {"jwks_def", "code", "token", "refresh"}
    /\ Len(th.jwks_def.key_defs) = 3
    /\ \A i \in 1..3 :
          /\ th.jwks_def.key_defs[i].type = "oct"
          /\ th.jwks_def.key_defs[i].bytes = "24"
          /\ th.jwks_def.key_defs[i].use = <<"enc">>
    /\ <<th.jwks_def.key_defs[1].kid, th.jwks_def.key_defs[2].kid, th.jwks_def.key_defs[3].kid>>
          = <<"code", "token", "refresh">>
    /\ th.code.lifetime = 600
    /\ th.token.lifetime = 3600
    /\ th.refresh.lifetime = 86400

\* C3 (as amended): th_args is the default block when token_handler_args is
\* omitted or is an empty block, and exactly the configured block when it is
\* present and not empty.
C3_TokenHandlerArgs ==
    op = "__init__" =>
        IF Has(conf0, "token_handler_args") /\ DOMAIN conf0.token_handler_args # {}
        THEN ctx.th_args = conf0.token_handler_args
        ELSE IsDefaultBlock(ctx.th_args)

\* C3 (as stated): the default block when the key is omitted, and exactly the
\* configured block whenever the key is present, an empty block included.
C3_Original ==
    op = "__init__" =>
        IF Has(conf0, "token_handler_args")
        THEN DOMAIN ctx.th_args = DOMAIN conf0.token_handler_args
        ELSE IsDefaultBlock(ctx.th_args)

\* an empty configured block was replaced by the default block
C3_Witness ==
    /\ op = "__init__"
    /\ Has(conf0, "token_handler_args")
    /\ DOMAIN conf0.token_handler_args = {}
    /\ IsDefaultBlock(ctx.th_args)

\* C2 (as amended): the returned document's issuer is the context's issuer and
\* its version is "3.0", unless the ID-token capability's provider-info fragment
\* carries that key, in which case the fragment's value is returned; the base
\* mapping never decides either field.
C2_IssuerVersion ==
    (op = "create_providerinfo" /\ err = "none") =>
        LET frag == ctx.idtoken[1]
            doc == out[1]
        IN  /\ doc.issuer = IF Has(frag, "issuer") THEN frag.issuer ELSE ctx.issuer
            /\ doc.version = IF Has(frag, "version") THEN frag.version ELSE "3.0"

\* C2 (as stated): the returned document's issuer is the context's issuer and
\* its version is "3.0" for every base mapping and every ID-token fragment.
C2_Original ==
    (op = "create_providerinfo" /\ err = "none") =>
        (out[1].issuer = ctx.issuer /\ out[1].version = "3.0")

\* a base mapping with another issuer and version was overridden
C2_Witness ==
    /\ op = "create_providerinfo"
    /\ err = "none"
    /\ Has(caps, "issuer") /\ caps.issuer # ctx.issuer
    /\ Has(caps, "version") /\ caps.version # "3.0"
    /\ out[1].issuer = ctx.issuer
    /\ out[1].version = "3.0"

\* the value create_providerinfo falls back to for key k
DefaultFor(k) == IF k = "scopes_supported" THEN ctx.scope2claims ELSE STANDARD_CLAIMS

\* C7 (as amended): scopes_supported and claims_supported each hold the ID-token
\* fragment's value when the fragment carries the key, else the base mapping's
\* value when the base mapping carries it, else the default (the keys of the
\* scope-to-claims mapping, the standard-claims list).
C7_ScopesClaimsDefaults ==
    (op = "create_providerinfo" /\ err = "none") =>
        \A k \in {"scopes_supported", "claims_supported"} :
            out[1][k] = IF Has(ctx.idtoken[1], k) THEN ctx.idtoken[1][k]
                        ELSE IF Has(caps, k) THEN caps[k]
                        ELSE DefaultFor(k)

\* C7 (as stated): each key holds the default exactly when the base mapping
\* lacks it, and the base mapping's value when the base mapping carries it.
C7_Original ==
    (op = "create_providerinfo" /\ err = "none") =>
        \A k \in {"scopes_supported", "claims_supported"} :
            out[1][k] = IF Has(caps, k) THEN caps[k] ELSE DefaultFor(k)

\* one key defaulted, the other taken from the base mapping
C7_Witness ==
    /\ op = "create_providerinfo"
    /\ err = "none"
    /\ ~Has(caps, "scopes_supported") /\ ~Has(ctx.idtoken[1], "scopes_supported")
    /\ out[1].scopes_supported = SCOPE2CLAIMS_keys
    /\ Has(caps, "claims_supported") /\ ~Has(ctx.idtoken[1], "claims_supported")
    /\ out[1].claims_supported = caps.claims_supported
    /\ out[1].claims_supported # STANDARD_CLAIMS

\* the declared add-ons
Declared == IF Has(conf, "add_on") THEN conf.add_on ELSE <<>>

\* add-on i can be called: its function resolves and it has kwargs
Callable(i) ==
    /\ Has(Declared[i].spec, "kwargs")
    /\ Declared[i].spec.function.isstr => Declared[i].spec.function.name \in DOMAIN Registry

CalleeOf(i) ==
    IF Declared[i].spec.function.isstr
    THEN Registry[Declared[i].spec.function.name]
    ELSE Declared[i].spec.function.name

\* add-on i fails: it cannot be called, or its call raises
Fails(i) == ~Callable(i) \/ CalleeOf(i) \in Raising

\* C4: do_add_on calls the add-ons in declaration order, each with
\* (endpoints, **kwargs); when the i-th fails the failure propagates, every
\* add-on before it has been called and none after it is.
C4_AddOnOrder ==
    op = "do_add_on" =>
        LET failing == {i \in 1..Len(Declared) : Fails(i)}
            first == IF failing = {} THEN Len(Declared) + 1
                     ELSE CHOOSE i \in failing : \A j \in failing : i <= j
        IN  /\ (err = "none") <=> (failing = {})
            /\ Len(invoked) = IF failing = {} THEN Len(Declared)
                              ELSE IF Callable(first) THEN first ELSE first - 1
            /\ \A j \in 1..Len(invoked) :
                  /\ invoked[j].function = CalleeOf(j)
                  /\ invoked[j].kwargs = Declared[j].spec.kwargs
                  /\ invoked[j].endpoints \in Endpoints
                  /\ invoked[j].endpoints = invoked[1].endpoints

\* three add-ons declared, the second raised: two calls were made, the third never
C4_Witness ==
    /\ op = "do_add_on"
    /\ Len(Declared) = 3
    /\ ~Fails(1) /\ Fails(2) /\ ~Fails(3)
    /\ Len(invoked) = 2
    /\ err = "AddOnError"

\* the login_hint_lookup block carries a nested userinfo block
NestedUserinfo ==
    /\ Has(conf0.login_hint_lookup, "kwargs")
    /\ HasTruthy(conf0.login_hint_lookup.kwargs, "userinfo")

\* C5: after the login-hint-lookup step, the lookup's userinfo attribute is the
\* context's own userinfo object when the block has no nested userinfo block,
\* and a separately constructed instance when it has one.
C5_LoginHintLookupUserinfo ==
    (op \in {"__init__", "do_login_hint_lookup"} /\ err = "none"
        /\ HasTruthy(conf0, "login_hint_lookup")) =>
        LET lookup == ctx.login_hint_lookup
        IN  /\ lookup # 0
            /\ IF NestedUserinfo
               THEN /\ objs[lookup].userinfo \notin {0, ctx.userinfo}
                    /\ objs[lookup].userinfo = lookup - 1
                    /\ objs[objs[lookup].userinfo].via = "init_user_info"
                    /\ objs[objs[lookup].userinfo].kwargs
                          = conf0.login_hint_lookup.kwargs.userinfo.kwargs
               ELSE objs[lookup].userinfo = ctx.userinfo

\* a lookup built after the user-info step shares the context's user-info object
C5_Witness ==
    /\ op = "do_login_hint_lookup"
    /\ err = "none"
    /\ HasTruthy(conf0, "login_hint_lookup")
    /\ ~NestedUserinfo
    /\ ctx.userinfo # 0
    /\ objs[ctx.login_hint_lookup].userinfo = ctx.userinfo

\* the instances init_user_info built that are not the nested user-info object
\* of a login-hint lookup
TopLevelUserInfos ==
    {i \in DOMAIN objs :
        /\ objs[i].via = "init_user_info"
        /\ ~(\E l \in DOMAIN objs : objs[l].via = "init_service" /\ objs[l].userinfo = i)}

\* C6: while the context has no session manager, do_userinfo instantiates
\* nothing, leaves userinfo unset and raises nothing, for any userinfo block,
\* and bootstrap goes on to the later steps.
C6_UserinfoNeedsSessionManager ==
    ctx.session_manager = 0 =>
        /\ ctx.userinfo = 0
        /\ TopLevelUserInfos = {}
        /\ op = "do_userinfo" => err = "none"
        /\ (op = "__init__" /\ DOMAIN conf0 \subseteq {"issuer", "keys", "userinfo"})
              => (pc = "ready" /\ err = "none")
        /\ (op = "__init__" /\ pc = "ready" /\ HasTruthy(conf0, "login_hint2acrs"))
              => ctx.login_hint2acrs # 0

\* bootstrap with an unresolvable userinfo class and no session manager went on
\* to build the login-hint-to-ACR mapper
C6_Witness ==
    /\ op = "__init__"
    /\ pc = "ready"
    /\ ctx.session_manager = 0
    /\ HasTruthy(conf0, "userinfo")
    /\ conf0.userinfo["class"].isstr
    /\ conf0.userinfo["class"].name \notin DOMAIN Registry
    /\ ctx.userinfo = 0
    /\ ctx.login_hint2acrs # 0

\* C8: the configuration document is never mutated in place: it has the keys
\* and values it had before bootstrap started.
C8_ConfNeverMutated == conf = conf0

ServiceStyle == {"login_hint_lookup", "login_hint2acrs", "cookie_dealer"}

\* C9: the keyword arguments a service-style capability is constructed with
\* contain server_get, and a configured server_get reaches the constructor
\* unchanged.
C9_ServerGetPreserved ==
    \A k \in ServiceStyle :
        (ctx[k] # 0 /\ objs[ctx[k]].via = "init_service") =>
            /\ Has(objs[ctx[k]].kwargs, "server_get")
            /\ (Has(conf0[k], "kwargs") /\ Has(conf0[k].kwargs, "server_get"))
                  => objs[ctx[k]].kwargs.server_get = conf0[k].kwargs.server_get

====
